---------------------------- MODULE Spec2Model ----------------------------
(***************************************************************************)
(* A model of the struct-path procedural macros `paths!` and `path!`      *)
(* (src/macro/src/lib.rs).  Both macros scan a proc_macro TokenStream one *)
(* TokenTree at a time with a flat `match` over (flags, token kind), then *)
(* emit check functions and string literals.                              *)
(*                                                                         *)
(* Strings are sequences of one-character strings, so that push_str,      *)
(* split('.'), join and the case conversion are computed, not assumed.    *)
(* Option<String> is a sequence of length 0 (None) or 1 (Some(s)).        *)
(* A token is a record [k, s, ts]: k the TokenTree variant, s the text of *)
(* an Ident / Punct / Literal (to_string()), ts the stream of a Group.    *)
(***************************************************************************)
EXTENDS Integers, Sequences, FiniteSets, TLC

VARIABLES
    form,        \* how the stream was written (NoForm: any tokens, one at a time)
    input,       \* the TokenTrees of a written stream not yet read
    toks,        \* the TokenTrees handed to both macros so far
    phase,       \* "scan": the for loop is running; "done": both macros returned or panicked
    paths_st,    \* the locals of paths()
    path_st,     \* the locals of path()
    paths_out,   \* what paths() produced
    path_out     \* what path() produced

vars == <<form, input, toks, phase, paths_st, path_st, paths_out, path_out>>

-----------------------------------------------------------------------------
(* Bounds of the model *)

\* tokens of a stream read one arbitrary token at a time
MaxTokens == 8

\* identifiers of a struct reference, segments of a field path, struct entries
\* of a stream, members of a group
MaxRef == 2

MaxSegs == 2

MaxEntries == 2

MaxMembers == 2

-----------------------------------------------------------------------------
(* Strings, Option, Vec *)

None == <<>>

Some(x) == <<x>>

IsSome(o) == o # <<>>

Unwrap(o) == o[1]

ColonColon == <<":", ":">>

RECURSIVE SplitFrom(_, _, _)
\* str::split(ch): the pieces between occurrences of ch; n+1 pieces for n
\* occurrences, empty pieces included.  cur is the piece being read.
SplitFrom(s, ch, cur) ==
    IF s = <<>> THEN <<cur>>
    ELSE IF Head(s) = ch THEN <<cur>> \o SplitFrom(Tail(s), ch, <<>>)
    ELSE SplitFrom(Tail(s), ch, Append(cur, Head(s)))

Split(s, ch) == SplitFrom(s, ch, <<>>)

RECURSIVE Join(_, _)
\* [String]::join(delim)
Join(parts, delim) ==
    IF parts = <<>> THEN <<>>
    ELSE IF Len(parts) = 1 THEN parts[1]
    ELSE parts[1] \o delim \o Join(Tail(parts), delim)


-----------------------------------------------------------------------------
(* convert_case: field_name.from_case(Case::Snake).to_case(Case::Camel | Case::Pascal) *)

LowerLetters ==
    <<"a","b","c","d","e","f","g","h","i","j","k","l","m",
      "n","o","p","q","r","s","t","u","v","w","x","y","z">>

UpperLetters ==
    <<"A","B","C","D","E","F","G","H","I","J","K","L","M",
      "N","O","P","Q","R","S","T","U","V","W","X","Y","Z">>

IndexIn(c, letters) ==
    IF \E i \in 1..Len(letters) : letters[i] = c
    THEN CHOOSE i \in 1..Len(letters) : letters[i] = c
    ELSE 0

\* char::to_uppercase / to_lowercase on the ASCII letters; other characters unchanged
ToUpperChar(c) ==
    IF IndexIn(c, LowerLetters) > 0 THEN UpperLetters[IndexIn(c, LowerLetters)] ELSE c

ToLowerChar(c) ==
    IF IndexIn(c, UpperLetters) > 0 THEN LowerLetters[IndexIn(c, UpperLetters)] ELSE c

\* Pattern word "lowercase"
LowerWord(w) == [i \in 1..Len(w) |-> ToLowerChar(w[i])]

\* Pattern word "capital": first character upper case, the rest lower case
CapitalWord(w) ==
    [i \in 1..Len(w) |-> IF i = 1 THEN ToUpperChar(w[i]) ELSE ToLowerChar(w[i])]

\* from_case(Case::Snake): the only word boundary is '_'; empty words are dropped
\* (no field name of the streams below has a leading, trailing or doubled '_')
SnakeWords(s) == SelectSeq(Split(s, "_"), LAMBDA w : w # <<>>)

\* to_case(Case::Camel): first word lowercase, the others capital, joined by ""
ToCamel(s) ==
    LET ws == SnakeWords(s)
    IN  Join([i \in 1..Len(ws) |-> IF i = 1 THEN LowerWord(ws[i]) ELSE CapitalWord(ws[i])], <<>>)

\* to_case(Case::Pascal): every word capital, joined by ""
ToPascal(s) ==
    LET ws == SnakeWords(s)
    IN  Join([i \in 1..Len(ws) |-> CapitalWord(ws[i])], <<>>)

-----------------------------------------------------------------------------
(* HashMap<String, String>: a function from the keys present to their values *)

EmptyMap == [k \in {} |-> <<>>]

MapInsert(m, key, val) ==
    [k \in (DOMAIN m) \cup {key} |-> IF k = key THEN val ELSE m[k]]

MapGet(m, key) == IF key \in DOMAIN m THEN Some(m[key]) ELSE None

KeyDelim == <<"d","e","l","i","m">>

KeyCase == <<"c","a","s","e">>

CamelStr == <<"c","a","m","e","l">>

PascalStr == <<"p","a","s","c","a","l">>

DotStr == <<".">>

\* a formatter that converts the case of the whole path and splits it afterwards
apply_options_whole_path(options, field_path) ==
    LET delim == IF IsSome(MapGet(options, KeyDelim)) THEN Unwrap(MapGet(options, KeyDelim)) ELSE DotStr
        case  == MapGet(options, KeyCase)
        conv  == IF IsSome(case)
                 THEN IF Unwrap(case) = CamelStr THEN ToCamel(field_path)
                      ELSE IF Unwrap(case) = PascalStr THEN ToPascal(field_path)
                      ELSE field_path
                 ELSE field_path
        bad   == IsSome(case) /\ Unwrap(case) # CamelStr /\ Unwrap(case) # PascalStr
    IN  IF bad
        THEN [panicked |-> TRUE, value |-> <<>>]
        ELSE [panicked |-> FALSE, value |-> Join(Split(conv, "."), delim)]

\* a formatter whose match has a catch-all arm that leaves the segment as it is
apply_options_lenient(options, field_path) ==
    LET delim == IF IsSome(MapGet(options, KeyDelim)) THEN Unwrap(MapGet(options, KeyDelim)) ELSE DotStr
        case  == MapGet(options, KeyCase)
        names == Split(field_path, ".")
        conv(field_name) ==
            IF IsSome(case)
            THEN IF Unwrap(case) = CamelStr THEN ToCamel(field_name)
                 ELSE IF Unwrap(case) = PascalStr THEN ToPascal(field_name)
                 ELSE field_name
            ELSE field_name
    IN  [panicked |-> FALSE,
         value |-> Join([i \in 1..Len(names) |-> conv(names[i])], delim)]

\* a formatter whose match has a "none" arm that leaves the segment as it is
apply_options_none_accepted(options, field_path) ==
    LET delim == IF IsSome(MapGet(options, KeyDelim)) THEN Unwrap(MapGet(options, KeyDelim)) ELSE DotStr
        case  == MapGet(options, KeyCase)
        names == Split(field_path, ".")
        conv(field_name) ==
            IF IsSome(case)
            THEN IF Unwrap(case) = CamelStr THEN ToCamel(field_name)
                 ELSE IF Unwrap(case) = PascalStr THEN ToPascal(field_name)
                 ELSE field_name
            ELSE field_name
        bad == /\ IsSome(case)
               /\ Unwrap(case) # CamelStr
               /\ Unwrap(case) # PascalStr
               /\ Unwrap(case) # <<"n","o","n","e">>
    IN  IF bad
        THEN [panicked |-> TRUE, value |-> <<>>]
        ELSE [panicked |-> FALSE,
              value |-> Join([i \in 1..Len(names) |-> conv(names[i])], delim)]

\* apply_options: the result is [panicked, value]; it panics on an unknown case
\* while mapping a segment (split always yields at least one segment).
apply_options(options, field_path) ==
    LET delim == IF IsSome(MapGet(options, KeyDelim)) THEN Unwrap(MapGet(options, KeyDelim)) ELSE DotStr
        case  == MapGet(options, KeyCase)
        names == Split(field_path, ".")
        conv(field_name) ==
            IF IsSome(case)
            THEN IF Unwrap(case) = CamelStr THEN ToCamel(field_name)
                 ELSE IF Unwrap(case) = PascalStr THEN ToPascal(field_name)
                 ELSE field_name
            ELSE field_name
        bad == IsSome(case) /\ Unwrap(case) # CamelStr /\ Unwrap(case) # PascalStr
    IN  IF bad
        THEN [panicked |-> TRUE, value |-> <<>>]
        ELSE [panicked |-> FALSE,
              value |-> Join([i \in 1..Len(names) |-> conv(names[i])], delim)]

\* generate_checks_code_for: one check function per (struct_name, field_path),
\* struct by struct and field by field; the model keeps the two format arguments.
RECURSIVE generate_checks_code_for(_)
generate_checks_code_for(found_structs) ==
    IF found_structs = <<>> THEN <<>>
    ELSE LET e == Head(found_structs)
         IN  [i \in 1..Len(e.fields) |-> [struct_name |-> e.name, field_path |-> e.fields[i]]]
             \o generate_checks_code_for(Tail(found_structs))

-----------------------------------------------------------------------------
(* Tokens *)

Ident(s) == [k |-> "Ident", s |-> s, ts |-> <<>>]

Punct(c) == [k |-> "Punct", s |-> <<c>>, ts |-> <<>>]

Literal(s) == [k |-> "Literal", s |-> s, ts |-> <<>>]

Group(ts) == [k |-> "Group", s |-> <<>>, ts |-> ts]

IsPunct(tok, c) == tok.k = "Punct" /\ tok.s = <<c>>

-----------------------------------------------------------------------------
(* parse_multiple_fields: the fields of a group, appended to found_struct_fields. *)
(* The result is [panicked, fields].                                             *)

RECURSIVE parse_fields_loop(_, _, _)
\* the for loop over group_stream: current_field_path is the local accumulator
parse_fields_loop(group_stream, current_field_path, found_struct_fields) ==
    IF group_stream = <<>>
    THEN [panicked |-> FALSE,
          fields |-> IF IsSome(current_field_path)
                     THEN Append(found_struct_fields, Unwrap(current_field_path))
                     ELSE found_struct_fields]
    ELSE LET tok == Head(group_stream)
             rest == Tail(group_stream)
         IN  IF tok.k = "Ident"
             THEN parse_fields_loop(rest,
                      IF IsSome(current_field_path)
                      THEN Some(Unwrap(current_field_path) \o tok.s)
                      ELSE Some(tok.s),
                      found_struct_fields)
             ELSE IF IsPunct(tok, ",")
             THEN IF IsSome(current_field_path)
                  THEN parse_fields_loop(rest, None,
                           Append(found_struct_fields, Unwrap(current_field_path)))
                  ELSE [panicked |-> TRUE, fields |-> found_struct_fields]
             ELSE IF IsPunct(tok, ".")
             THEN IF IsSome(current_field_path)
                  THEN parse_fields_loop(rest,
                           Some(Append(Unwrap(current_field_path), ".")),
                           found_struct_fields)
                  ELSE [panicked |-> TRUE, fields |-> found_struct_fields]
             ELSE [panicked |-> TRUE, fields |-> found_struct_fields]

\* a sub-parser that pushes a member only at its ',' (lines 272-274 left out)
parse_multiple_fields_no_tail(group_stream, found_struct_fields) ==
    LET r == parse_fields_loop(group_stream, None, found_struct_fields)
        n == Len(group_stream)
    IN  IF ~r.panicked /\ n > 0 /\ ~IsPunct(group_stream[n], ",")
        THEN [r EXCEPT !.fields = SubSeq(@, 1, Len(@) - 1)]
        ELSE r

parse_multiple_fields(group_stream, found_struct_fields) ==
    parse_fields_loop(group_stream, None, found_struct_fields)

-----------------------------------------------------------------------------
(* The match arms both scanners share (paths lines 73-119 and 140-182 are, *)
(* character for character, path lines 296-342 and 363-405).  st is the    *)
(* record of the macro's locals.                                           *)

Panic(st) == [st EXCEPT !.panicked = TRUE]

\* TokenTree::Ident(id) if current_struct_name.is_none()
GuardStructName(st, tok) == tok.k = "Ident" /\ ~IsSome(st.current_struct_name)

ArmStructName(st, tok) == [st EXCEPT !.current_struct_name = Some(tok.s)]

\* TokenTree::Punct(punct) if current_struct_name.is_some() && !opened_struct
\*     && punct == ':' && colons_counter < 2
GuardColonClosed(st, tok) ==
    /\ IsPunct(tok, ":")
    /\ IsSome(st.current_struct_name)
    /\ ~st.opened_struct
    /\ st.colons_counter < 2

ArmColonClosed(st, tok) ==
    [st EXCEPT !.colons_counter = @ + 1,
               !.opened_struct = IF st.colons_counter + 1 > 1 THEN TRUE ELSE @]

\* TokenTree::Ident(id) if opened_struct
GuardFieldIdent(st, tok) == tok.k = "Ident" /\ st.opened_struct

ArmFieldIdent(st, tok) ==
    [st EXCEPT !.colons_counter = 0,
               !.current_field_path =
                   IF IsSome(@) THEN Some(Unwrap(@) \o tok.s) ELSE Some(tok.s)]

\* TokenTree::Punct(punct) if current_struct_name.is_some() && opened_struct
\*     && punct == ':' && colons_counter < 2
GuardColonOpened(st, tok) ==
    /\ IsPunct(tok, ":")
    /\ IsSome(st.current_struct_name)
    /\ st.opened_struct
    /\ st.colons_counter < 2

\* a ':' arm that takes the field path but forgets to push it onto struct_name
ArmColonOpenedNoExtend(st, tok) ==
    [st EXCEPT !.colons_counter = @ + 1,
               !.opened_struct = FALSE,
               !.current_field_path = None]

ArmColonOpened(st, tok) ==
    [st EXCEPT !.colons_counter = @ + 1,
               !.opened_struct = FALSE,
               !.current_field_path = None,
               !.current_struct_name =
                   IF IsSome(st.current_field_path) /\ IsSome(@)
                   THEN Some(Unwrap(@) \o ColonColon \o Unwrap(st.current_field_path))
                   ELSE @]

\* TokenTree::Punct(punct) if opened_struct && punct == '.'
GuardDot(st, tok) == IsPunct(tok, ".") /\ st.opened_struct

\* a '.' arm that forgets field_path.push('.')
ArmDotNoPush(st, tok) == IF IsSome(st.current_field_path) THEN st ELSE Panic(st)

ArmDot(st, tok) ==
    IF IsSome(st.current_field_path)
    THEN [st EXCEPT !.current_field_path = Some(Append(Unwrap(@), "."))]
    ELSE Panic(st)

\* TokenTree::Punct(punct) if !options_opened && opened_struct && punct == ','
GuardComma(st, tok) == IsPunct(tok, ",") /\ ~st.options_opened /\ st.opened_struct

\* TokenTree::Punct(punct) if punct == ';' && opened_struct && !options_opened
GuardSemicolon(st, tok) == IsPunct(tok, ";") /\ st.opened_struct /\ ~st.options_opened

ArmSemicolon(st, tok) == [st EXCEPT !.options_opened = TRUE, !.opened_struct = FALSE]

\* TokenTree::Ident(id) if options_opened && !expect_option_value
GuardOptionName(st, tok) ==
    tok.k = "Ident" /\ st.options_opened /\ ~st.expect_option_value

\* an option-name arm that takes the names delim and case only
ArmOptionNameStrict(st, tok) ==
    IF tok.s \in {<<"d","e","l","i","m">>, <<"c","a","s","e">>}
    THEN [st EXCEPT !.current_option_name = Some(tok.s)]
    ELSE Panic(st)


ArmOptionName(st, tok) == [st EXCEPT !.current_option_name = Some(tok.s)]

\* TokenTree::Ident(id) if options_opened && expect_option_value
GuardOptionIdent(st, tok) ==
    tok.k = "Ident" /\ st.options_opened /\ st.expect_option_value

ArmOptionIdent(st, tok) ==
    IF IsSome(st.current_option_name)
    THEN [st EXCEPT !.expect_option_value = FALSE,
                    !.current_option_name = None,
                    !.options = MapInsert(@, Unwrap(st.current_option_name), tok.s)]
    ELSE Panic(st)

\* TokenTree::Literal(lit) if options_opened && expect_option_value
GuardOptionLiteral(st, tok) ==
    tok.k = "Literal" /\ st.options_opened /\ st.expect_option_value

\* lit_str.as_str()[1..lit_str.len() - 1]: the literal's text without its first
\* and last character; the slice panics when the text is one character long.
ArmOptionLiteral(st, tok) ==
    IF IsSome(st.current_option_name) /\ Len(tok.s) >= 2
    THEN [st EXCEPT !.expect_option_value = FALSE,
                    !.current_option_name = None,
                    !.options = MapInsert(@, Unwrap(st.current_option_name),
                                          SubSeq(tok.s, 2, Len(tok.s) - 1))]
    ELSE Panic(st)

\* TokenTree::Punct(punct) if options_opened && punct == '='
GuardEquals(st, tok) == IsPunct(tok, "=") /\ st.options_opened

ArmEquals(st, tok) == [st EXCEPT !.expect_option_value = TRUE]

\* TokenTree::Punct(punct) if options_opened && punct == ','
GuardOptionComma(st, tok) == IsPunct(tok, ",") /\ st.options_opened

ArmOptionComma(st, tok) == [st EXCEPT !.expect_option_value = FALSE]

-----------------------------------------------------------------------------
(* paths!: the arms it has of its own, its scanner and its end of input *)

\* The locals of paths() at lines 56-69.  collected is a history of the model:
\* every field path pushed onto current_struct_fields, in the order pushed.
PathsInit ==
    [current_struct_name   |-> None,
     current_struct_fields |-> <<>>,
     opened_struct         |-> FALSE,
     colons_counter        |-> 0,
     options_opened        |-> FALSE,
     current_field_path    |-> None,
     current_option_name   |-> None,
     expect_option_value   |-> FALSE,
     options               |-> EmptyMap,
     found_structs         |-> <<>>,
     panicked              |-> FALSE,
     collected             |-> <<>>]

\* TokenTree::Group(group) if opened_struct && current_field_path.is_none()
GuardGroup(st, tok) ==
    tok.k = "Group" /\ st.opened_struct /\ ~IsSome(st.current_field_path)

PathsArmGroup(st, tok) ==
    LET r == parse_multiple_fields(tok.ts, st.current_struct_fields)
    IN  IF r.panicked
        THEN Panic(st)
        ELSE [st EXCEPT !.current_struct_fields = r.fields,
                        !.collected = @ \o SubSeq(r.fields,
                                                  Len(st.current_struct_fields) + 1,
                                                  Len(r.fields))]

\* a ',' arm that clones current_struct_fields instead of draining it
PathsArmCommaNoDrain(st, tok) ==
    IF IsSome(st.current_struct_name)
    THEN LET fields == IF IsSome(st.current_field_path)
                       THEN Append(st.current_struct_fields, Unwrap(st.current_field_path))
                       ELSE st.current_struct_fields
             pushed == IF IsSome(st.current_field_path)
                       THEN <<Unwrap(st.current_field_path)>>
                       ELSE <<>>
         IN  IF fields # <<>>
             THEN [st EXCEPT !.opened_struct = FALSE,
                             !.colons_counter = 0,
                             !.current_struct_name = None,
                             !.current_field_path = None,
                             !.current_struct_fields = fields,
                             !.found_structs =
                                 Append(@, [name |-> Unwrap(st.current_struct_name),
                                            fields |-> fields]),
                             !.collected = @ \o pushed]
             ELSE Panic(st)
    ELSE Panic(st)

\* the ',' arm of paths (lines 123-139): the entry is committed to found_structs
\* and current_struct_fields is drained
PathsArmComma(st, tok) ==
    IF IsSome(st.current_struct_name)
    THEN LET fields == IF IsSome(st.current_field_path)
                       THEN Append(st.current_struct_fields, Unwrap(st.current_field_path))
                       ELSE st.current_struct_fields
             pushed == IF IsSome(st.current_field_path)
                       THEN <<Unwrap(st.current_field_path)>>
                       ELSE <<>>
         IN  IF fields # <<>>
             THEN [st EXCEPT !.opened_struct = FALSE,
                             !.colons_counter = 0,
                             !.current_struct_name = None,
                             !.current_field_path = None,
                             !.current_struct_fields = <<>>,
                             !.found_structs =
                                 Append(@, [name |-> Unwrap(st.current_struct_name),
                                            fields |-> fields]),
                             !.collected = @ \o pushed]
             ELSE Panic(st)
    ELSE Panic(st)

\* the match of paths (lines 72-182): the first arm whose guard holds is taken
paths_token(st, tok) ==
    IF GuardStructName(st, tok) THEN ArmStructName(st, tok)
    ELSE IF GuardColonClosed(st, tok) THEN ArmColonClosed(st, tok)
    ELSE IF GuardFieldIdent(st, tok) THEN ArmFieldIdent(st, tok)
    ELSE IF GuardColonOpened(st, tok) THEN ArmColonOpened(st, tok)
    ELSE IF GuardDot(st, tok) THEN ArmDot(st, tok)
    ELSE IF GuardGroup(st, tok) THEN PathsArmGroup(st, tok)
    ELSE IF GuardComma(st, tok) THEN PathsArmComma(st, tok)
    ELSE IF GuardSemicolon(st, tok) THEN ArmSemicolon(st, tok)
    ELSE IF GuardOptionName(st, tok) THEN ArmOptionName(st, tok)
    ELSE IF GuardOptionIdent(st, tok) THEN ArmOptionIdent(st, tok)
    ELSE IF GuardOptionLiteral(st, tok) THEN ArmOptionLiteral(st, tok)
    ELSE IF GuardEquals(st, tok) THEN ArmEquals(st, tok)
    ELSE IF GuardOptionComma(st, tok) THEN ArmOptionComma(st, tok)
    ELSE Panic(st)

\* What a macro gives back: status "running" while it scans, "ok" with the check
\* functions and the string literals it emitted, or "panicked" with nothing.
\* shape is "array" for [..] and "string" for one literal.
Running == [status |-> "running", shape |-> "none", checks |-> <<>>, literals |-> <<>>]

Panicked == [status |-> "panicked", shape |-> "none", checks |-> <<>>, literals |-> <<>>]

RECURSIVE AllFields(_)
\* the nested for loops of lines 206-214, without the formatting
AllFields(found_structs) ==
    IF found_structs = <<>> THEN <<>>
    ELSE Head(found_structs).fields \o AllFields(Tail(found_structs))

\* an end of paths without the empty-entry check and the empty-output check
paths_finish_unchecked(st) ==
    LET fields == IF IsSome(st.current_field_path)
                  THEN Append(st.current_struct_fields, Unwrap(st.current_field_path))
                  ELSE st.current_struct_fields
    IN  IF ~IsSome(st.current_struct_name)
        THEN Panicked
        ELSE LET found == Append(st.found_structs,
                                 [name |-> Unwrap(st.current_struct_name), fields |-> fields])
                 all   == AllFields(found)
                 fmt(field_path) ==
                     IF st.options # EmptyMap
                     THEN apply_options(st.options, field_path)
                     ELSE [panicked |-> FALSE, value |-> field_path]
             IN  IF \E i \in 1..Len(all) : fmt(all[i]).panicked
                 THEN Panicked
                 ELSE [status   |-> "ok",
                       shape    |-> "array",
                       checks   |-> generate_checks_code_for(found),
                       literals |-> [i \in 1..Len(all) |-> fmt(all[i]).value]]


\* paths after the loop (lines 185-227)
paths_finish(st) ==
    LET fields == IF IsSome(st.current_field_path)
                  THEN Append(st.current_struct_fields, Unwrap(st.current_field_path))
                  ELSE st.current_struct_fields
    IN  IF ~IsSome(st.current_struct_name) \/ fields = <<>>
        THEN Panicked
        ELSE LET found == Append(st.found_structs,
                                 [name |-> Unwrap(st.current_struct_name), fields |-> fields])
                 all   == AllFields(found)
                 fmt(field_path) ==
                     IF st.options # EmptyMap
                     THEN apply_options(st.options, field_path)
                     ELSE [panicked |-> FALSE, value |-> field_path]
             IN  IF \E i \in 1..Len(all) : fmt(all[i]).panicked
                 THEN Panicked
                 ELSE IF all = <<>>
                 THEN Panicked
                 ELSE [status   |-> "ok",
                       shape    |-> "array",
                       checks   |-> generate_checks_code_for(found),
                       literals |-> [i \in 1..Len(all) |-> fmt(all[i]).value]]

\* the field paths paths() has collected when the input ends: the history plus
\* the open current_field_path, which line 186 pushes
PathsCollectedAtEnd(st) ==
    IF IsSome(st.current_field_path)
    THEN Append(st.collected, Unwrap(st.current_field_path))
    ELSE st.collected

-----------------------------------------------------------------------------
(* path!: its ',' arm, its scanner and its end of input *)

\* The locals of path() at lines 279-292
PathInit ==
    [current_struct_name     |-> None,
     opened_struct           |-> FALSE,
     colons_counter          |-> 0,
     options_opened          |-> FALSE,
     current_field_path      |-> None,
     current_full_field_path |-> None,
     current_option_name     |-> None,
     expect_option_value     |-> FALSE,
     options                 |-> EmptyMap,
     found_structs           |-> <<>>,
     panicked                |-> FALSE]

\* a commit that forgets full_field_path.push('.')
PathCommitNoDot(st, struct_name, field_path) ==
    [st EXCEPT !.found_structs = Append(@, [name |-> struct_name, fields |-> <<field_path>>]),
               !.current_full_field_path =
                   IF IsSome(@) THEN Some(Unwrap(@) \o field_path) ELSE Some(field_path)]

\* lines 348-355 and 410-417: commit (struct_name, [field_path]) and continue
\* the full path with '.' + field_path
PathCommit(st, struct_name, field_path) ==
    [st EXCEPT !.found_structs = Append(@, [name |-> struct_name, fields |-> <<field_path>>]),
               !.current_full_field_path =
                   IF IsSome(@) THEN Some(Unwrap(@) \o <<".">> \o field_path)
                   ELSE Some(field_path)]

\* the ',' arm of path (lines 343-362)
PathArmComma(st, tok) ==
    IF IsSome(st.current_struct_name)
    THEN IF IsSome(st.current_field_path)
         THEN [PathCommit(st, Unwrap(st.current_struct_name), Unwrap(st.current_field_path))
                  EXCEPT !.opened_struct = FALSE,
                         !.colons_counter = 0,
                         !.current_struct_name = None,
                         !.current_field_path = None]
         ELSE Panic(st)
    ELSE Panic(st)

\* a match of path with an arm that takes a Group and does nothing with it
path_token_group_skipped(st, tok) ==
    IF GuardStructName(st, tok) THEN ArmStructName(st, tok)
    ELSE IF GuardColonClosed(st, tok) THEN ArmColonClosed(st, tok)
    ELSE IF GuardFieldIdent(st, tok) THEN ArmFieldIdent(st, tok)
    ELSE IF GuardColonOpened(st, tok) THEN ArmColonOpened(st, tok)
    ELSE IF GuardDot(st, tok) THEN ArmDot(st, tok)
    ELSE IF tok.k = "Group" /\ st.opened_struct THEN st
    ELSE IF GuardComma(st, tok) THEN PathArmComma(st, tok)
    ELSE IF GuardSemicolon(st, tok) THEN ArmSemicolon(st, tok)
    ELSE IF GuardOptionName(st, tok) THEN ArmOptionName(st, tok)
    ELSE IF GuardOptionIdent(st, tok) THEN ArmOptionIdent(st, tok)
    ELSE IF GuardOptionLiteral(st, tok) THEN ArmOptionLiteral(st, tok)
    ELSE IF GuardEquals(st, tok) THEN ArmEquals(st, tok)
    ELSE IF GuardOptionComma(st, tok) THEN ArmOptionComma(st, tok)
    ELSE Panic(st)

\* the match of path (lines 295-405): it has no Group arm
path_token(st, tok) ==
    IF GuardStructName(st, tok) THEN ArmStructName(st, tok)
    ELSE IF GuardColonClosed(st, tok) THEN ArmColonClosed(st, tok)
    ELSE IF GuardFieldIdent(st, tok) THEN ArmFieldIdent(st, tok)
    ELSE IF GuardColonOpened(st, tok) THEN ArmColonOpened(st, tok)
    ELSE IF GuardDot(st, tok) THEN ArmDot(st, tok)
    ELSE IF GuardComma(st, tok) THEN PathArmComma(st, tok)
    ELSE IF GuardSemicolon(st, tok) THEN ArmSemicolon(st, tok)
    ELSE IF GuardOptionName(st, tok) THEN ArmOptionName(st, tok)
    ELSE IF GuardOptionIdent(st, tok) THEN ArmOptionIdent(st, tok)
    ELSE IF GuardOptionLiteral(st, tok) THEN ArmOptionLiteral(st, tok)
    ELSE IF GuardEquals(st, tok) THEN ArmEquals(st, tok)
    ELSE IF GuardOptionComma(st, tok) THEN ArmOptionComma(st, tok)
    ELSE Panic(st)

\* the locals of path after lines 408-419
path_end_commit(st) ==
    IF IsSome(st.current_struct_name) /\ IsSome(st.current_field_path)
    THEN [PathCommit(st, Unwrap(st.current_struct_name), Unwrap(st.current_field_path))
             EXCEPT !.current_struct_name = None, !.current_field_path = None]
    ELSE [st EXCEPT !.current_struct_name = None]

\* an end of path that builds the checks from the formatted field paths
path_finish_checks_formatted(st) ==
    LET e == path_end_commit(st)
        fmt(entry) ==
            [name |-> entry.name,
             fields |-> [i \in 1..Len(entry.fields) |->
                            apply_options(e.options, entry.fields[i]).value]]
    IN  IF IsSome(e.current_full_field_path)
        THEN LET final == apply_options(e.options, Unwrap(e.current_full_field_path))
             IN  IF final.panicked
                 THEN Panicked
                 ELSE [status   |-> "ok",
                       shape    |-> "string",
                       checks   |-> generate_checks_code_for(
                                        [i \in 1..Len(e.found_structs) |-> fmt(e.found_structs[i])]),
                       literals |-> <<final.value>>]
        ELSE Panicked


\* path after the loop (lines 408-428)
path_finish(st) ==
    LET e == path_end_commit(st)
    IN  IF IsSome(e.current_full_field_path)
        THEN LET final == apply_options(e.options, Unwrap(e.current_full_field_path))
             IN  IF final.panicked
                 THEN Panicked
                 ELSE [status   |-> "ok",
                       shape    |-> "string",
                       checks   |-> generate_checks_code_for(e.found_structs),
                       literals |-> <<final.value>>]
        ELSE Panicked

-----------------------------------------------------------------------------
(* The token streams the macros are run on *)

IdA == <<"a">>

IdBC == <<"b", "_", "c">>

IdM == <<"m">>

IdT == <<"t">>

ShoutStr == <<"s","h","o","u","t">>

NoneStr == <<"n","o","n","e">>

SlashStr == <<"/">>

Quoted(s) == <<"\"">> \o s \o <<"\"">>

\* Streams read one arbitrary token at a time draw from these.
\* Identifiers: a field / type name, an option name and an option value.
Idents == {IdBC, KeyCase, CamelStr}

Puncts == {":", ".", ",", ";", "=", "~"}

\* the text of a string literal keeps its quotes: "shout"
Literals == {Quoted(ShoutStr)}

\* the streams of the groups {}, {a, b_c}, {a.b_c} and {a., a..b_c.}
Groups ==
    {<<>>,
     <<Ident(IdA), Punct(","), Ident(IdBC)>>,
     <<Ident(IdA), Punct("."), Ident(IdBC)>>,
     <<Ident(IdA), Punct("."), Punct(","),
       Ident(IdA), Punct("."), Punct("."), Ident(IdBC), Punct(".")>>}

\* Written streams.  A form is [entries, opts]: an entry is [ref, kind, paths],
\* ref the identifiers of the struct reference, paths the field paths (each a
\* sequence of segments) and kind how they are written:
\*   "dotted"  Ref::s1.s2.s3       "tilde"  Ref::s1.s2~s3
\*   "group"   Ref::{p1, p2}       "groupc" Ref::{p1, p2,}
\* opts is the options section: a sequence of [key, val, lit], written
\* key = "val" when lit and key = val otherwise, after a ';'.
RefIdents == {IdM, IdT}

FieldIdents == {IdA, IdBC}

SeqsUpTo(S, n) == UNION {[1..k -> S] : k \in 1..n}

SeqsFromZero(S, n) == UNION {[1..k -> S] : k \in 0..n}

Opt(key, val, lit) == [key |-> key, val |-> val, lit |-> lit]

OptionLists ==
    {<<>>,
     <<Opt(KeyDelim, SlashStr, TRUE)>>,
     <<Opt(KeyCase, CamelStr, TRUE)>>,
     <<Opt(KeyCase, PascalStr, FALSE)>>,
     <<Opt(KeyDelim, SlashStr, TRUE), Opt(KeyCase, CamelStr, TRUE)>>,
     <<Opt(KeyCase, ShoutStr, TRUE)>>,
     <<Opt(KeyCase, NoneStr, FALSE)>>,
     <<Opt(IdA, CamelStr, FALSE)>>}

GroupOptionLists ==
    {<<>>,
     <<Opt(KeyDelim, SlashStr, TRUE), Opt(KeyCase, PascalStr, TRUE)>>,
     <<Opt(KeyCase, ShoutStr, TRUE)>>}

Entry(ref, kind, paths) == [ref |-> ref, kind |-> kind, paths |-> paths]

\* one entry, any struct reference, a dotted or '~' field path, any options
SingleForms ==
    {[entries |-> <<Entry(ref, kind, <<segs>>)>>, opts |-> opts] :
        ref \in SeqsUpTo(RefIdents, MaxRef),
        kind \in {"dotted", "tilde"},
        segs \in SeqsUpTo(FieldIdents, MaxSegs),
        opts \in OptionLists}

\* the field paths written in groups and in streams of several entries
ShortPaths == SeqsUpTo(FieldIdents, 2)

\* one entry in group form
GroupForms ==
    {[entries |-> <<Entry(<<IdT>>, kind, members)>>, opts |-> opts] :
        kind \in {"group", "groupc"},
        members \in SeqsFromZero(ShortPaths, MaxMembers),
        opts \in GroupOptionLists}

\* several entries, each a dotted field path or a group of one-segment members
MultiEntries ==
    {Entry(<<IdT>>, "dotted", <<segs>>) : segs \in ShortPaths}
    \cup {Entry(<<IdM>>, "group", members) :
              members \in SeqsFromZero(SeqsUpTo(FieldIdents, 1), 2)}

MultiForms ==
    {[entries |-> es, opts |-> <<>>] :
        es \in UNION {[1..k -> MultiEntries] : k \in 2..MaxEntries}}

Forms ==
    {f \in SingleForms : f.entries[1].kind = "tilde" => Len(f.entries[1].paths[1]) >= 2}
    \cup GroupForms \cup MultiForms

NoForm == [entries |-> <<>>, opts |-> <<>>]

RECURSIVE Interleave(_, _)
\* the token sequences parts[1], sep, parts[2], sep, ...
Interleave(parts, sep) ==
    IF parts = <<>> THEN <<>>
    ELSE IF Len(parts) = 1 THEN parts[1]
    ELSE parts[1] \o sep \o Interleave(Tail(parts), sep)

TwoColons == <<Punct(":"), Punct(":")>>

RenderRef(ref) == Interleave([i \in 1..Len(ref) |-> <<Ident(ref[i])>>], TwoColons)

\* s1 . s2 . s3; with tilde the last join is written '~'
RenderSegs(segs, tilde) ==
    LET n == Len(segs)
    IN  Interleave([i \in 1..n |->
                       IF i = 1 THEN <<Ident(segs[i])>>
                       ELSE IF tilde /\ i = n THEN <<Punct("~"), Ident(segs[i])>>
                       ELSE <<Punct("."), Ident(segs[i])>>], <<>>)

RenderEntry(e) ==
    RenderRef(e.ref) \o TwoColons \o
    (IF e.kind \in {"dotted", "tilde"}
     THEN RenderSegs(e.paths[1], e.kind = "tilde")
     ELSE <<Group(Interleave([i \in 1..Len(e.paths) |-> RenderSegs(e.paths[i], FALSE)],
                             <<Punct(",")>>)
                  \o (IF e.kind = "groupc" THEN <<Punct(",")>> ELSE <<>>))>>)

RenderOpt(o) ==
    <<Ident(o.key), Punct("="), IF o.lit THEN Literal(Quoted(o.val)) ELSE Ident(o.val)>>

RenderForm(f) ==
    Interleave([i \in 1..Len(f.entries) |-> RenderEntry(f.entries[i])], <<Punct(",")>>)
    \o (IF f.opts = <<>> THEN <<>>
        ELSE <<Punct(";")>> \o
             Interleave([i \in 1..Len(f.opts) |-> RenderOpt(f.opts[i])], <<Punct(",")>>))

-----------------------------------------------------------------------------
(* Both macros run on the same stream, one TokenTree at a time *)

Init ==
    /\ form \in Forms \cup {NoForm}
    /\ input = RenderForm(form)
    /\ toks = <<>>
    /\ phase = "scan"
    /\ paths_st = PathsInit
    /\ path_st = PathInit
    /\ paths_out = Running
    /\ path_out = Running

\* One iteration of each for loop on token tok; a macro that has panicked has
\* stopped.  When both have panicked nothing is left to run.
Consume(tok) ==
    LET ps == IF paths_st.panicked THEN paths_st ELSE paths_token(paths_st, tok)
        p  == IF path_st.panicked THEN path_st ELSE path_token(path_st, tok)
    IN  /\ toks' = Append(toks, tok)
        /\ paths_st' = ps
        /\ path_st' = p
        /\ paths_out' = IF ps.panicked THEN Panicked ELSE paths_out
        /\ path_out' = IF p.panicked THEN Panicked ELSE path_out
        /\ phase' = IF ps.panicked /\ p.panicked THEN "done" ELSE "scan"
        /\ UNCHANGED form

\* an arbitrary next token
CanRead == phase = "scan" /\ form = NoForm /\ Len(toks) < MaxTokens

ReadIdent == CanRead /\ UNCHANGED input /\ \E s \in Idents : Consume(Ident(s))

ReadPunct == CanRead /\ UNCHANGED input /\ \E c \in Puncts : Consume(Punct(c))

ReadLiteral == CanRead /\ UNCHANGED input /\ \E s \in Literals : Consume(Literal(s))

ReadGroup == CanRead /\ UNCHANGED input /\ \E ts \in Groups : Consume(Group(ts))

\* the next token of a written stream
ReadNext ==
    /\ phase = "scan"
    /\ input # <<>>
    /\ Consume(Head(input))
    /\ input' = Tail(input)

\* The stream ends: each macro still running executes the code after its loop
EndOfInput ==
    /\ phase = "scan"
    /\ input = <<>>
    /\ phase' = "done"
    /\ paths_out' = IF paths_st.panicked THEN paths_out ELSE paths_finish(paths_st)
    /\ path_out' = IF path_st.panicked THEN path_out ELSE path_finish(path_st)
    /\ UNCHANGED <<form, input, toks, paths_st, path_st>>

Next == ReadIdent \/ ReadPunct \/ ReadLiteral \/ ReadGroup \/ ReadNext \/ EndOfInput

Spec == Init /\ [][Next]_vars

-----------------------------------------------------------------------------
RECURSIVE PathsScan(_)
\* the for loop of paths (lines 71-183) run on the tokens ts: the locals after
\* the last of them, or at the panic that stopped the loop
PathsScan(ts) ==
    IF ts = <<>> THEN PathsInit
    ELSE LET st == PathsScan(SubSeq(ts, 1, Len(ts) - 1))
         IN  IF st.panicked THEN st ELSE paths_token(st, ts[Len(ts)])

RECURSIVE PathScan(_)
\* the for loop of path (lines 294-406) run on the tokens ts
PathScan(ts) ==
    IF ts = <<>> THEN PathInit
    ELSE LET st == PathScan(SubSeq(ts, 1, Len(ts) - 1))
         IN  IF st.panicked THEN st ELSE path_token(st, ts[Len(ts)])

\* the macros as functions of the whole token stream ts
PathsRun(ts) ==
    IF PathsScan(ts).panicked THEN Panicked ELSE paths_finish(PathsScan(ts))

PathRun(ts) ==
    IF PathScan(ts).panicked THEN Panicked ELSE path_finish(PathScan(ts))


\* the locals of each macro just before it reads toks[i]
PathsBefore(i) == PathsScan(SubSeq(toks, 1, i - 1))

PathBefore(i) == PathScan(SubSeq(toks, 1, i - 1))

\* toks[i] is a group and the group rule of paths took it
GroupParsedAt(i) ==
    /\ toks[i].k = "Group"
    /\ ~PathsBefore(i).panicked
    /\ GuardGroup(PathsBefore(i), toks[i])

\* the variables hold what the loops compute
ScanReplay == paths_st = PathsScan(toks) /\ path_st = PathScan(toks)


(* What a written stream says, read off its form *)

RECURSIVE Written(_)
\* a field path as written with dots: s1.s2.s3
Written(segs) ==
    IF Len(segs) = 1 THEN segs[1] ELSE segs[1] \o <<".">> \o Written(Tail(segs))

RECURSIVE Qualified(_)
\* a struct reference as written: i1::i2::i3
Qualified(ref) ==
    IF Len(ref) = 1 THEN ref[1] ELSE ref[1] \o <<":", ":">> \o Qualified(Tail(ref))

RECURSIVE FormPaths(_)
\* the field paths of the entries, entry by entry, as written with dots
FormPaths(entries) ==
    IF entries = <<>> THEN <<>>
    ELSE [i \in 1..Len(Head(entries).paths) |-> Written(Head(entries).paths[i])]
         \o FormPaths(Tail(entries))

RECURSIVE FormChecks(_)
\* the (struct reference, field path) pairs of the entries
FormChecks(entries) ==
    IF entries = <<>> THEN <<>>
    ELSE [i \in 1..Len(Head(entries).paths) |->
             [struct_name |-> Qualified(Head(entries).ref),
              field_path  |-> Written(Head(entries).paths[i])]]
         \o FormChecks(Tail(entries))

IsWritten == form # NoForm

OneEntry == IsWritten /\ Len(form.entries) = 1

FirstEntry == form.entries[1]

\* the number of tokens of entry e up to and including its field path or group
EntryTokens(e) == Len(RenderEntry(e))

-----------------------------------------------------------------------------
(* C1: path!(Ref::s1.s2...sN), N >= 1, no options, succeeds and emits the one *)
(* string literal s1.s2...sN, the segments as written joined by '.'.          *)

C1_Case == OneEntry /\ FirstEntry.kind = "dotted" /\ form.opts = <<>>

C1_ScalarIdentity ==
    (phase = "done" /\ C1_Case) =>
        /\ path_out.status = "ok"
        /\ path_out.shape = "string"
        /\ path_out.literals = <<Written(FirstEntry.paths[1])>>

C1_Witness ==
    /\ phase = "done"
    /\ C1_Case
    /\ Len(FirstEntry.paths[1]) >= 2
    /\ FirstEntry.paths[1][1] # FirstEntry.paths[1][2]
    /\ path_out.status = "ok"

(* C2: path! given k >= 2 comma-separated entries, each one dotted field path: *)
(* every comma commits the (struct reference, field path) pair, and the output *)
(* is one string literal, the field paths in order with '.' between entries.   *)

C2_Case ==
    /\ IsWritten
    /\ Len(form.entries) >= 2
    /\ \A i \in 1..Len(form.entries) : form.entries[i].kind = "dotted"
    /\ form.opts = <<>>

RECURSIVE DotConcat(_)
DotConcat(paths) ==
    IF Len(paths) = 1 THEN paths[1] ELSE paths[1] \o <<".">> \o DotConcat(Tail(paths))

C2_ScalarContinuation ==
    (phase = "done" /\ C2_Case) =>
        /\ path_out.status = "ok"
        /\ path_out.shape = "string"
        /\ path_out.literals = <<DotConcat(FormPaths(form.entries))>>
        /\ path_out.checks = FormChecks(form.entries)

C2_Witness ==
    /\ phase = "done"
    /\ C2_Case
    /\ form.entries[1].paths[1] # form.entries[2].paths[1]
    /\ Len(form.entries[2].paths[1]) = 2
    /\ path_out.status = "ok"

(* C3: on every input paths! accepts, the emitted sequence literal has exactly *)
(* one element per field path collected, in the order collected (entries in    *)
(* input order, the field paths of an entry in input order); its length is the *)
(* number of field paths collected.                                            *)

\* the element paths! emits for a collected field path
PathsElement(field_path) ==
    IF paths_st.options # EmptyMap
    THEN apply_options(paths_st.options, field_path).value
    ELSE field_path

C3_OneElementPerFieldPath ==
    paths_out.status = "ok" =>
        LET c == PathsCollectedAtEnd(paths_st)
        IN  /\ paths_out.shape = "array"
            /\ Len(paths_out.literals) = Len(c)
            /\ \A i \in 1..Len(c) : paths_out.literals[i] = PathsElement(c[i])
            /\ (IsWritten /\ form.opts = <<>>) =>
                   paths_out.literals = FormPaths(form.entries)

C3_Witness ==
    /\ paths_out.status = "ok"
    /\ IsWritten
    /\ Len(form.entries) = 2
    /\ form.entries[1].kind = "group"
    /\ Len(form.entries[1].paths) = 2
    /\ form.entries[1].paths[1] # form.entries[1].paths[2]
    /\ Len(paths_out.literals) = 3

(* C4: the Group Sub-Parser, given a group of comma-separated members, each    *)
(* identifiers separated by single dots, appends exactly one field path per    *)
(* member to the entry's field list, in member order, each the member's        *)
(* segments joined by '.'; a trailing comma after the last member is optional. *)

C4_Case ==
    /\ OneEntry
    /\ FirstEntry.kind \in {"group", "groupc"}
    /\ Len(FirstEntry.paths) >= 1

\* the Group token of the first entry has been read
C4_GroupRead == Len(toks) >= EntryTokens(FirstEntry)

C4_GroupMembers ==
    (C4_Case /\ C4_GroupRead) =>
        LET members == FormPaths(form.entries)
            group   == toks[EntryTokens(FirstEntry)]
            onto    == parse_multiple_fields(group.ts, <<IdA>>)
        IN  /\ ~paths_st.panicked
            /\ paths_st.current_struct_fields = members
            /\ ~onto.panicked
            /\ onto.fields = <<IdA>> \o members

C4_Witness ==
    /\ C4_Case
    /\ C4_GroupRead
    /\ FirstEntry.kind = "group"
    /\ Len(FirstEntry.paths) = 2
    /\ Len(FirstEntry.paths[1]) = 2
    /\ paths_st.current_struct_fields = FormPaths(form.entries)

(* C5: a field path whose last two segments are joined by '~' instead of '.'  *)
(* is accepted by path! and paths! and gives the output '.' would give:        *)
(* Ref::a~b yields "a.b" from path! and ["a.b"] from paths!.                   *)

C5_Case == OneEntry /\ FirstEntry.kind = "tilde" /\ form.opts = <<>>

C5_TildeAsDot ==
    (phase = "done" /\ C5_Case) =>
        /\ path_out.status = "ok"
        /\ path_out.literals = <<Written(FirstEntry.paths[1])>>
        /\ paths_out.status = "ok"
        /\ paths_out.literals = <<Written(FirstEntry.paths[1])>>

(* C6: for i1::i2::...::in::f both scanners end with the struct reference      *)
(* i1::i2::...::in and the field path f: every identifier followed by '::'     *)
(* extends the struct reference, the one that is not becomes the field path.   *)

C6_Case ==
    /\ OneEntry
    /\ FirstEntry.kind = "dotted"
    /\ Len(FirstEntry.paths[1]) = 1

\* the scanners have read exactly i1::...::in::f
C6_EntryRead == phase = "scan" /\ Len(toks) = EntryTokens(FirstEntry)

C6_Scanned(st) ==
    /\ ~st.panicked
    /\ st.current_struct_name = Some(Qualified(FirstEntry.ref))
    /\ st.current_field_path = Some(FirstEntry.paths[1][1])

C6_ReferenceExtension ==
    /\ (C6_Case /\ C6_EntryRead) => (C6_Scanned(path_st) /\ C6_Scanned(paths_st))
    /\ (C6_Case /\ form.opts = <<>> /\ phase = "done") =>
           /\ path_out.checks = FormChecks(form.entries)
           /\ paths_out.checks = FormChecks(form.entries)

C6_Witness ==
    /\ C6_Case
    /\ C6_EntryRead
    /\ Len(FirstEntry.ref) = 2
    /\ FirstEntry.ref[1] # FirstEntry.ref[2]
    /\ C6_Scanned(path_st)
    /\ C6_Scanned(paths_st)

(* C7: path! and paths! accept the same token grammar: on every token stream   *)
(* path! succeeds if and only if paths! succeeds.  Stated here for the streams *)
(* without a Group token, which the rules the two scanners share decide.       *)

NoGroupRead == \A i \in 1..Len(toks) : toks[i].k # "Group"

C7_SameGrammar ==
    (phase = "done" /\ NoGroupRead) =>
        (path_out.status = "ok" <=> paths_out.status = "ok")

(* C8: path! given one struct entry in group form Ref::{m1, ..., mk} accepts   *)
(* it and emits a sequence literal of the group's field paths in member order. *)

C8_Case ==
    /\ OneEntry
    /\ FirstEntry.kind \in {"group", "groupc"}
    /\ Len(FirstEntry.paths) >= 1
    /\ form.opts = <<>>

RECURSIVE OptValue(_, _)
OptValue(opts, key) ==
    IF opts = <<>> THEN None
    ELSE IF opts[Len(opts)].key = key THEN Some(opts[Len(opts)].val)
    ELSE OptValue(SubSeq(opts, 1, Len(opts) - 1), key)

\* the two field names of the written streams in camel and in pascal case
Cased(case, seg) ==
    IF case = CamelStr
    THEN (IF seg = IdBC THEN <<"b", "C">> ELSE <<"a">>)
    ELSE (IF seg = IdBC THEN <<"B", "C">> ELSE <<"A">>)

RECURSIVE CasedJoined(_, _, _)
\* segs converted one by one, d between neighbours
CasedJoined(segs, case, d) ==
    IF Len(segs) = 1 THEN Cased(case, segs[1])
    ELSE Cased(case, segs[1]) \o d \o CasedJoined(Tail(segs), case, d)

C9_Delim == IF IsSome(OptValue(form.opts, KeyDelim)) THEN Unwrap(OptValue(form.opts, KeyDelim)) ELSE <<".">>

C9_Case ==
    /\ IsWritten
    /\ OptValue(form.opts, KeyCase) \in {Some(CamelStr), Some(PascalStr)}
    /\ \A i \in 1..Len(form.entries) :
           form.entries[i].kind # "tilde" /\ Len(form.entries[i].paths) >= 1

RECURSIVE C9_Expected(_)
C9_Expected(entries) ==
    IF entries = <<>> THEN <<>>
    ELSE [i \in 1..Len(Head(entries).paths) |->
             CasedJoined(Head(entries).paths[i], Unwrap(OptValue(form.opts, KeyCase)), C9_Delim)]
         \o C9_Expected(Tail(entries))

ValueChildPath == <<"v","a","l","u","e","_","c","h","i","l","d",".","c","h","i","l","d","_","v","a","l","u","e","_","s","t","r">>

ValueChildCamel == <<"v","a","l","u","e","C","h","i","l","d","/","c","h","i","l","d","V","a","l","u","e","S","t","r">>

C9_SegmentwiseCase ==
    (phase = "done" /\ C9_Case) =>
        /\ paths_out.status = "ok"
        /\ paths_out.literals = C9_Expected(form.entries)
        /\ FirstEntry.kind = "dotted" =>
               (path_out.status = "ok" /\ path_out.literals = C9_Expected(form.entries))
        /\ apply_options(MapInsert(MapInsert(EmptyMap, KeyDelim, SlashStr), KeyCase, CamelStr),
                         ValueChildPath)
               = [panicked |-> FALSE, value |-> ValueChildCamel]

C9_Witness ==
    /\ phase = "done"
    /\ C9_Case
    /\ OptValue(form.opts, KeyCase) = Some(PascalStr)
    /\ FirstEntry.kind = "dotted"
    /\ FirstEntry.paths[1] = <<IdA, IdBC>>
    /\ path_out.literals = <<<<"A", ".", "B", "C">>>>

(* C10: for both macros, when the options set `case` to a value outside the   *)
(* recognized set (case = "shout"), the invocation fails and nothing is        *)
(* emitted, whatever the rest of the otherwise valid input.                    *)

CaseModes == {NoneStr, CamelStr, PascalStr}

C10_UnknownCaseSet(st) ==
    KeyCase \in DOMAIN st.options /\ st.options[KeyCase] \notin CaseModes

C10_UnknownCaseWritten ==
    /\ IsWritten
    /\ IsSome(OptValue(form.opts, KeyCase))
    /\ Unwrap(OptValue(form.opts, KeyCase)) \notin CaseModes

C10_UnknownCaseFails ==
    phase = "done" =>
        /\ C10_UnknownCaseSet(path_st) => path_out = Panicked
        /\ C10_UnknownCaseSet(paths_st) => paths_out = Panicked
        /\ C10_UnknownCaseWritten => (path_out = Panicked /\ paths_out = Panicked)

C10_Witness ==
    /\ phase = "done"
    /\ C10_UnknownCaseWritten
    /\ FirstEntry.kind = "dotted"
    /\ input = <<>>
    /\ ~path_st.panicked
    /\ ~paths_st.panicked
    /\ C10_UnknownCaseSet(path_st)
    /\ C10_UnknownCaseSet(paths_st)
    /\ path_out = Panicked
    /\ paths_out = Panicked

(* C11: `case` accepts exactly none, camel and pascal: case = none is accepted *)
(* and every segment comes out unchanged, exactly as when `case` is absent.    *)

C11_Case ==
    /\ OneEntry
    /\ FirstEntry.kind = "dotted"
    /\ form.opts = <<Opt(KeyCase, NoneStr, FALSE)>>

C11_NoneAsAbsent ==
    (phase = "done" /\ C11_Case) =>
        /\ path_out.status = "ok"
        /\ path_out.literals = <<Written(FirstEntry.paths[1])>>
        /\ paths_out.status = "ok"
        /\ paths_out.literals = <<Written(FirstEntry.paths[1])>>

(* C11 as amended: `case` accepts exactly camel and pascal.  case = none is    *)
(* rejected like any other value: both macros fail and emit nothing; a macro   *)
(* that succeeds with `case` set has it set to camel or pascal, and segments   *)
(* come out unchanged only when `case` is absent.                              *)

C11_CaseSetTo(st, val) == KeyCase \in DOMAIN st.options /\ st.options[KeyCase] = val

C11_AcceptedCases == {CamelStr, PascalStr}

C11_NoneRejected ==
    /\ (phase = "done" /\ C11_Case) => (path_out = Panicked /\ paths_out = Panicked)
    /\ (phase = "done" /\ path_out.status = "ok" /\ KeyCase \in DOMAIN path_st.options)
           => path_st.options[KeyCase] \in C11_AcceptedCases
    /\ (phase = "done" /\ paths_out.status = "ok" /\ KeyCase \in DOMAIN paths_st.options)
           => paths_st.options[KeyCase] \in C11_AcceptedCases
    /\ (phase = "done" /\ OneEntry /\ FirstEntry.kind = "dotted"
            /\ ~IsSome(OptValue(form.opts, KeyCase)) /\ ~IsSome(OptValue(form.opts, KeyDelim)))
           => /\ path_out.literals = <<Written(FirstEntry.paths[1])>>
              /\ paths_out.literals = <<Written(FirstEntry.paths[1])>>
    /\ apply_options(MapInsert(EmptyMap, KeyCase, NoneStr), ValueChildPath).panicked

C11_Witness ==
    /\ phase = "done"
    /\ C11_Case
    /\ input = <<>>
    /\ Len(FirstEntry.paths[1]) = 2
    /\ ~path_st.panicked
    /\ ~paths_st.panicked
    /\ C11_CaseSetTo(path_st, NoneStr)
    /\ C11_CaseSetTo(paths_st, NoneStr)
    /\ path_out = Panicked
    /\ paths_out = Panicked

(* C12: whenever the paths! scanner parses a nested group with zero members    *)
(* (Ref::{}), the invocation fails, whatever tokens follow the group.          *)

\* toks[i] is an empty group and the group rule of paths took it
C12_EmptyGroupParsedAt(i) == GroupParsedAt(i) /\ toks[i].ts = <<>>

C12_EmptyGroupFails ==
    (phase = "done" /\ \E i \in 1..Len(toks) : C12_EmptyGroupParsedAt(i))
        => paths_out = Panicked


(* C13: at end of input both macros fail if no struct name was ever opened or  *)
(* if the last struct entry opened (a struct name read at the start or after a *)
(* comma) has no field path; a struct name alone, with no `::`, fails.         *)

\* the struct-name rule took some token of the stream
C13_PathsNameOpened ==
    \E i \in 1..Len(toks) :
        ~PathsBefore(i).panicked /\ GuardStructName(PathsBefore(i), toks[i])

C13_PathNameOpened ==
    \E i \in 1..Len(toks) :
        ~PathBefore(i).panicked /\ GuardStructName(PathBefore(i), toks[i])

\* the entry whose struct name is open has no field path
C13_PathsEntryEmpty ==
    /\ IsSome(paths_st.current_struct_name)
    /\ paths_st.current_struct_fields = <<>>
    /\ ~IsSome(paths_st.current_field_path)

C13_PathEntryEmpty ==
    /\ IsSome(path_st.current_struct_name)
    /\ ~IsSome(path_st.current_field_path)

C13_EndOfInputChecks ==
    phase = "done" =>
        /\ (~C13_PathsNameOpened \/ C13_PathsEntryEmpty) => paths_out = Panicked
        /\ (~C13_PathNameOpened \/ C13_PathEntryEmpty) => path_out = Panicked


(* C14: on every accepted input the Check Emitter emits exactly one accessor   *)
(* expression per committed (struct reference, field path) pair, in commit     *)
(* order, built only from the struct reference and the field path as scanned:  *)
(* invocations that differ only in their options emit the same checks.         *)

\* the field paths the checks name, in the order emitted
C14_CheckedPaths(out) == [i \in 1..Len(out.checks) |-> out.checks[i].field_path]

\* the written stream of form with the options section opts instead
C14_WithOptions(opts) == RenderForm([form EXCEPT !.opts = opts])

C14_ChecksFromPairs ==
    /\ paths_out.status = "ok" =>
           /\ C14_CheckedPaths(paths_out) = PathsCollectedAtEnd(paths_st)
           /\ IsWritten => paths_out.checks = FormChecks(form.entries)
    /\ path_out.status = "ok" =>
           /\ path_out.checks =
                  generate_checks_code_for(path_end_commit(path_st).found_structs)
           /\ path_out.literals =
                  <<apply_options(path_st.options, DotConcat(C14_CheckedPaths(path_out))).value>>
           /\ IsWritten => path_out.checks = FormChecks(form.entries)
    /\ (IsWritten /\ phase = "done") =>
           \A opts \in OptionLists \cup GroupOptionLists :
               LET other_paths == PathsRun(C14_WithOptions(opts))
                   other_path  == PathRun(C14_WithOptions(opts))
               IN  /\ (paths_out.status = "ok" /\ other_paths.status = "ok")
                          => other_paths.checks = paths_out.checks
                   /\ (path_out.status = "ok" /\ other_path.status = "ok")
                          => other_path.checks = path_out.checks

C14_Witness ==
    /\ phase = "done"
    /\ OneEntry
    /\ form.opts = <<Opt(KeyDelim, SlashStr, TRUE), Opt(KeyCase, CamelStr, TRUE)>>
    /\ FirstEntry.paths[1] = <<IdA, IdBC>>
    /\ path_out.status = "ok"
    /\ path_out.literals = <<<<"a", "/", "b", "C">>>>
    /\ path_out.checks = <<[struct_name |-> Qualified(FirstEntry.ref),
                            field_path |-> <<"a", ".", "b", "_", "c">>]>>
    /\ paths_out.checks = path_out.checks
    /\ PathsRun(C14_WithOptions(<<>>)).literals = <<<<"a", ".", "b", "_", "c">>>>
    /\ PathsRun(C14_WithOptions(<<>>)).checks = paths_out.checks


(* C15: option keys other than delim and case are accepted and have no effect: *)
(* two invocations whose inputs differ only by additional name = value pairs   *)
(* with unrecognized names give the same output strings and the same checks.   *)

C15_RecognizedKeys == {KeyDelim, KeyCase}

\* name = value pairs whose names the Formatter does not know
C15_ExtraPairs == {Opt(IdA, CamelStr, FALSE), Opt(IdBC, ShoutStr, TRUE)}

\* the options section opts with pair x written after its first k pairs
C15_InsertAt(opts, k, x) == SubSeq(opts, 1, k) \o <<x>> \o SubSeq(opts, k + 1, Len(opts))

\* an options map without its unrecognized keys
C15_Recognized(options) ==
    [key \in (DOMAIN options) \cap C15_RecognizedKeys |-> options[key]]

C15_UnknownKeysNoEffect ==
    phase = "done" =>
        /\ ~paths_st.panicked =>
               paths_out = paths_finish([paths_st EXCEPT !.options = C15_Recognized(@)])
        /\ ~path_st.panicked =>
               path_out = path_finish([path_st EXCEPT !.options = C15_Recognized(@)])
        /\ IsWritten =>
               \A x \in C15_ExtraPairs : \A k \in 0..Len(form.opts) :
                   LET more == C14_WithOptions(C15_InsertAt(form.opts, k, x))
                   IN  /\ PathsRun(more) = paths_out
                       /\ PathRun(more) = path_out

C15_Witness ==
    /\ phase = "done"
    /\ OneEntry
    /\ form.opts = <<Opt(IdA, CamelStr, FALSE)>>
    /\ FirstEntry.paths[1] = <<IdA, IdBC>>
    /\ DOMAIN paths_st.options = {IdA}
    /\ DOMAIN path_st.options = {IdA}
    /\ paths_out.status = "ok"
    /\ paths_out.literals = <<<<"a", ".", "b", "_", "c">>>>
    /\ path_out.literals = paths_out.literals
    /\ PathsRun(C14_WithOptions(<<>>)) = paths_out


(* C16: neither macro produces output when zero field paths were collected:    *)
(* path! fails when no field path was ever committed, paths! fails when the    *)
(* total of collected field paths is zero; every emitted sequence literal has  *)
(* at least one element and every committed struct entry at least one path.    *)

C16_EntriesNonEmpty(found_structs) ==
    \A i \in 1..Len(found_structs) : found_structs[i].fields # <<>>

C16_NoEmptyOutput ==
    /\ C16_EntriesNonEmpty(paths_st.found_structs)
    /\ C16_EntriesNonEmpty(path_st.found_structs)
    /\ C16_EntriesNonEmpty(path_end_commit(path_st).found_structs)
    /\ paths_out.status = "ok" =>
           /\ Len(paths_out.literals) >= 1
           /\ Len(paths_out.checks) >= 1
           /\ PathsCollectedAtEnd(paths_st) # <<>>
    /\ path_out.status = "ok" =>
           /\ Len(path_out.literals) = 1
           /\ Len(path_out.checks) >= 1
           /\ path_end_commit(path_st).found_structs # <<>>
    /\ (phase = "done" /\ PathsCollectedAtEnd(paths_st) = <<>>) => paths_out = Panicked
    /\ (phase = "done" /\ path_end_commit(path_st).found_structs = <<>>)
           => path_out = Panicked

\* Ref::{} and the end of the stream: paths! has a struct name, an empty group
\* and no field path, and fails where its loop did not
C16_Witness ==
    /\ phase = "done"
    /\ Len(toks) = 4
    /\ toks[4] = Group(<<>>)
    /\ ~paths_st.panicked
    /\ IsSome(paths_st.current_struct_name)
    /\ PathsCollectedAtEnd(paths_st) = <<>>
    /\ paths_out = Panicked
    /\ PathRun(SubSeq(toks, 1, 3)) = Panicked
    /\ ~PathScan(SubSeq(toks, 1, 3)).panicked


(* C17: the scanner is total with a single transition per (state, token): in   *)
(* every reachable state of either scanner and for every token at most one     *)
(* rule other than the catch-all failure rule is enabled, and when none is     *)
(* enabled the invocation fails.                                               *)

C17_Tokens ==
    {Ident(s) : s \in Idents} \cup {Punct(c) : c \in Puncts}
    \cup {Literal(s) : s \in Literals} \cup {Group(ts) : ts \in Groups}

\* the rules both scanners have whose guard holds for tok in st
C17_SharedEnabled(st, tok) ==
    {r \in {"StructName", "ColonClosed", "FieldIdent", "ColonOpened", "Dot", "Comma",
            "Semicolon", "OptionName", "OptionIdent", "OptionLiteral", "Equals",
            "OptionComma"} :
        CASE r = "StructName"    -> GuardStructName(st, tok)
          [] r = "ColonClosed"   -> GuardColonClosed(st, tok)
          [] r = "FieldIdent"    -> GuardFieldIdent(st, tok)
          [] r = "ColonOpened"   -> GuardColonOpened(st, tok)
          [] r = "Dot"           -> GuardDot(st, tok)
          [] r = "Comma"         -> GuardComma(st, tok)
          [] r = "Semicolon"     -> GuardSemicolon(st, tok)
          [] r = "OptionName"    -> GuardOptionName(st, tok)
          [] r = "OptionIdent"   -> GuardOptionIdent(st, tok)
          [] r = "OptionLiteral" -> GuardOptionLiteral(st, tok)
          [] r = "Equals"        -> GuardEquals(st, tok)
          [] r = "OptionComma"   -> GuardOptionComma(st, tok)}

C17_PathsEnabled(st, tok) ==
    C17_SharedEnabled(st, tok) \cup (IF GuardGroup(st, tok) THEN {"Group"} ELSE {})

C17_SingleTransition ==
    \A tok \in C17_Tokens :
        /\ ~paths_st.panicked =>
               /\ Cardinality(C17_PathsEnabled(paths_st, tok)) <= 1
               /\ C17_PathsEnabled(paths_st, tok) = {} => paths_token(paths_st, tok).panicked
        /\ ~path_st.panicked =>
               /\ Cardinality(C17_SharedEnabled(path_st, tok)) <= 1
               /\ C17_SharedEnabled(path_st, tok) = {} => path_token(path_st, tok).panicked


(* C18: inside a group an empty segment is a hard failure: the sub-parser      *)
(* fails on a member with a '.' followed at once by ',', by another '.' or by  *)
(* the end of the group, so it never returns a field path with an empty        *)
(* segment such as "a." or "a..b".                                             *)

\* the group stream ts has a '.' followed at once by ',', '.' or the end
C18_DanglingDot(ts) ==
    \E j \in 1..Len(ts) :
        /\ IsPunct(ts[j], ".")
        /\ \/ j = Len(ts)
           \/ IsPunct(ts[j + 1], ",")
           \/ IsPunct(ts[j + 1], ".")

\* field_path has an empty segment between, before or after its dots
C18_EmptySegment(field_path) ==
    \E j \in 1..Len(Split(field_path, ".")) : Split(field_path, ".")[j] = <<>>

C18_GroupEmptySegmentFails ==
    \A i \in 1..Len(toks) :
        GroupParsedAt(i) =>
            LET r == parse_multiple_fields(toks[i].ts, PathsBefore(i).current_struct_fields)
            IN  /\ C18_DanglingDot(toks[i].ts) => (r.panicked /\ PathsBefore(i + 1).panicked)
                /\ ~r.panicked =>
                       \A j \in 1..Len(r.fields) : ~C18_EmptySegment(r.fields[j])


(* C19: within one struct entry the group form and the dotted form exclude     *)
(* each other: once a group has been parsed for the current entry its result   *)
(* is the entry's complete field-path list, and no later field identifier or   *)
(* group adds field paths to the same entry.  Stated for the groups that have *)
(* members, which the empty-group rule does not bear on.                       *)

\* paths is still in the entry it was in when it read toks[i]
C19_SameEntrySince(i) ==
    /\ ~paths_st.panicked
    /\ Len(paths_st.found_structs) = Len(PathsBefore(i).found_structs)

C19_GroupIsWholeEntry ==
    \A i \in 1..Len(toks) :
        (GroupParsedAt(i) /\ toks[i].ts # <<>> /\ C19_SameEntrySince(i)) =>
            /\ paths_st.current_struct_fields = PathsBefore(i + 1).current_struct_fields
            /\ ~IsSome(paths_st.current_field_path)
            /\ paths_out.status = "ok" =>
                   Len(paths_out.literals) =
                       Len(AllFields(paths_st.found_structs))
                       + Len(PathsBefore(i + 1).current_struct_fields)


(* C20: while field-reading the first identifier starts the field-path         *)
(* accumulator and every later identifier is dot-joined to it: the accumulator *)
(* of either scanner, and every field path of the Group Sub-Parser, is the     *)
(* identifiers read for that path with exactly one '.' between neighbours.     *)
(* Stated for the accumulator as it is right after an identifier was added,    *)
(* and for the groups in which every '.' is followed by an identifier.         *)

\* the field rule takes tok in st (the struct-name rule comes first in the match)
C20_FieldIdentTaken(st, tok) ==
    ~st.panicked /\ ~GuardStructName(st, tok) /\ GuardFieldIdent(st, tok)

\* tok in st is an identifier or a '.' of a field path being read
C20_InPath(st, tok) ==
    C20_FieldIdentTaken(st, tok) \/ (~st.panicked /\ GuardDot(st, tok))

\* the names of the identifiers among the tokens ts
C20_Names(ts) ==
    LET ids == SelectSeq(ts, LAMBDA t : t.k = "Ident")
    IN  [j \in 1..Len(ids) |-> ids[j].s]

\* the tokens of the field path that toks[n] belongs to, Before(j) the locals
\* of the scanner before toks[j]
C20_PathTokens(Before(_), n) ==
    LET k == CHOOSE k \in 1..n :
                 /\ \A j \in k..n : C20_InPath(Before(j), toks[j])
                 /\ k > 1 => ~C20_InPath(Before(k - 1), toks[k - 1])
    IN  SubSeq(toks, k, n)

C20_Accumulated(Before(_), st) ==
    (toks # <<>> /\ C20_FieldIdentTaken(Before(Len(toks)), toks[Len(toks)])) =>
        st.current_field_path =
            Some(DotConcat(C20_Names(C20_PathTokens(Before, Len(toks)))))

\* the field paths of the members of the group stream ts as the claim has them
C20_MemberPaths(ts) ==
    LET members == SelectSeq(Split(ts, Punct(",")), LAMBDA m : C20_Names(m) # <<>>)
    IN  [j \in 1..Len(members) |-> DotConcat(C20_Names(members[j]))]

C20_DotJoinedAccumulator ==
    /\ C20_Accumulated(PathsBefore, paths_st)
    /\ C20_Accumulated(PathBefore, path_st)
    /\ \A i \in 1..Len(toks) :
           (GroupParsedAt(i) /\ ~C18_DanglingDot(toks[i].ts)
                /\ ~PathsBefore(i + 1).panicked) =>
               parse_multiple_fields(toks[i].ts, <<>>).fields = C20_MemberPaths(toks[i].ts)


(* C21: in every reachable state of either scanner an accumulated struct       *)
(* reference is a non-empty sequence of single identifiers taken from the      *)
(* input, joined with `::`; it never holds a '.' nor two identifiers           *)
(* concatenated without a separator.  Stated for the streams in which no       *)
(* identifier directly follows another, so that it does not rest on the field  *)
(* rule's concatenation.                                                       *)

\* the names of the identifiers read so far
C21_InputIdents == {toks[i].s : i \in {j \in 1..Len(toks) : toks[j].k = "Ident"}}

\* name is i1::i2::...::in, n >= 1, each ik one identifier of the input: split
\* at ':' the pieces are i1, "", i2, "", ..., in
C21_WellFormedRef(name) ==
    LET pieces == Split(name, ":")
    IN  /\ Len(pieces) % 2 = 1
        /\ \A j \in 1..Len(pieces) :
               IF j % 2 = 1 THEN pieces[j] \in C21_InputIdents ELSE pieces[j] = <<>>

C21_ReferenceOf(st) ==
    (~st.panicked /\ IsSome(st.current_struct_name))
        => C21_WellFormedRef(Unwrap(st.current_struct_name))

\* no identifier of the stream directly follows another identifier
C21_IdentsSeparated ==
    \A i \in 1..(Len(toks) - 1) : ~(toks[i].k = "Ident" /\ toks[i + 1].k = "Ident")

C21_StructReferenceShape ==
    C21_IdentsSeparated =>
        /\ C21_ReferenceOf(paths_st)
        /\ C21_ReferenceOf(path_st)
        /\ \A i \in 1..Len(paths_st.found_structs) :
               C21_WellFormedRef(paths_st.found_structs[i].name)
        /\ \A i \in 1..Len(path_st.found_structs) :
               C21_WellFormedRef(path_st.found_structs[i].name)


(* C22: once a ';' has opened the options section the options-reading state is *)
(* never left, and every later token leaves the struct-reference accumulator,  *)
(* the field-path accumulators and the committed struct entries unchanged      *)
(* until end of input.                                                         *)

\* the ';' rule took toks[i] in the scanner whose locals before it are st
C22_SemicolonTaken(st, i) == ~st.panicked /\ GuardSemicolon(st, toks[i])

\* the accumulators of paths and of path that the options section must not touch
C22_PathsFrame(st) ==
    <<st.current_struct_name, st.current_field_path, st.current_struct_fields,
      st.found_structs>>

C22_PathFrame(st) ==
    <<st.current_struct_name, st.current_field_path, st.current_full_field_path,
      st.found_structs>>

C22_OptionsFrame ==
    \A i \in 1..Len(toks) :
        /\ (C22_SemicolonTaken(PathsBefore(i), i) /\ ~paths_st.panicked) =>
               /\ paths_st.options_opened
               /\ C22_PathsFrame(paths_st) = C22_PathsFrame(PathsBefore(i + 1))
        /\ (C22_SemicolonTaken(PathBefore(i), i) /\ ~path_st.panicked) =>
               /\ path_st.options_opened
               /\ C22_PathFrame(path_st) = C22_PathFrame(PathBefore(i + 1))


=============================================================================
